---- MODULE Spec2Model ----
(***************************************************************************)
(* Model of the refly API services:                                        *)
(*   KnowledgeService    (apps/api/src/knowledge/knowledge.service.ts)     *)
(*   SubscriptionService (apps/api/src/subscription/subscription.service.ts)*)
(*                                                                         *)
(* Spec    : the knowledge service: collection / resource CRUD, the        *)
(*           resource queue and the ingestion worker (finalizeResource).   *)
(* SpecIngest: one resource of every input shape, ingested by the worker.  *)
(* SpecFair: SpecIngest with the fairness of the queue and the worker.     *)
(* SpecCrud: two users drive the collection / resource CRUD surface.       *)
(* SpecSub : the subscription service: checkout, webhooks, usage meters.   *)
(* SpecConc: concurrent updateTokenUsage calls, one database statement at  *)
(*           a time.                                                       *)
(***************************************************************************)
EXTENDS Integers, Sequences, FiniteSets, TLC

\* ------------------------------------------------------------------ bounds
MaxUsers == 2
MaxResources == 2
MaxCollections == 2
MaxDeliveries == 2
MaxIngest == 1
MaxSessions == 2
MaxUsages == 2
MaxTime == 3
DayLen == 2
MonthLen == 2
MaxCallers == 2

\* ------------------------------------------------------- values and helpers
\* A JavaScript undefined string-valued field; "" and undefined are falsy.
Undef == "undefined"
Falsy(s) == s \in {Undef, ""}

\* a || b  on string-valued fields
OrElse(a, b) == IF Falsy(a) THEN b ELSE a

Users == 1..MaxUsers
CollIds == 1..MaxCollections
ResIds == 1..MaxResources

\* The weblink table (prior crawl records): linkId -> parsedDocStorageKey.
\* No operation of the service writes it.
KnownLinks == {"l1"}
parsedDocStorageKey(linkId) == "pk1"

\* The blob-store key convention of indexResource: `resource/${resourceId}`
ResourceKey(id) == "resource/" \o ToString(id)

Keys == {"k1", "k2", "pk1"} \cup {ResourceKey(i) : i \in ResIds}

\* What crawlFromRemoteReader returns for the one url of the model.
CrawlContent == "cW"
CrawlTitle == "tW"

VARIABLES
  resources,    \* Resource table: sequence of rows, resourceId = index
  collections,  \* Collection table: collectionId -> row (exists = FALSE: no row)
  members,      \* Resource <-> Collection relation: set of <<resourceId, collectionId>>
  blobs,        \* blob store (minio): key -> content, Undef = no object
  indexed,      \* vector store: resourceIds that have saved chunks
  queue,        \* QUEUE_RESOURCE: sequence of FinalizeResourceParam payloads
  delivered,    \* deliveries so far of each queued task (at-least-once)
  run,          \* the worker's current / last finalizeResource delivery
  lastOp,       \* the last API call and how it returned
  accounts,     \* User table as the subscription service uses it: uid -> row
  sessions,     \* CheckoutSession table: sequence of rows, sessionId = index
  subs,         \* Subscription table: subscriptionId -> row (exists = FALSE: no row)
  meters,       \* UsageMeter table: sequence of rows
  tokenUsages,  \* TokenUsage table: sequence of rows
  now,          \* the clock (new Date())
  subOp,        \* the last subscription-service call and how it returned
  txs           \* the database transactions of concurrent updateTokenUsage calls

kvars == <<resources, collections, members, blobs, indexed, queue, delivered, run, lastOp>>
svars == <<accounts, sessions, subs, meters, tokenUsages, now, subOp, txs>>
vars == <<resources, collections, members, blobs, indexed, queue, delivered, run, lastOp,
          accounts, sessions, subs, meters, tokenUsages, now, subOp, txs>>

NoCollection == [exists |-> FALSE, userId |-> 0, title |-> Undef, deleted |-> FALSE]

NoMeta == [url |-> Undef, linkId |-> Undef, storageKey |-> Undef, title |-> Undef]

\* stripe opens one subscription per checkout session: the ids are paired
SubIds == 1..MaxSessions
NoSubscription == [exists |-> FALSE, uid |-> 0, planType |-> Undef, status |-> Undef]

\* Concurrent callers of updateTokenUsage, each with its own $transaction
Callers == 1..MaxCallers
NoUsage == [tier |-> Undef, inputTokens |-> 0, outputTokens |-> 0]
NoTx == [pc |-> "idle", usage |-> NoUsage, timestamp |-> 0, locked |-> {}, written |-> <<>>]

IdleRun ==
  [pc |-> "idle", task |-> 0, resourceId |-> 0, userId |-> 0,
   storageKey |-> Undef, content |-> Undef, title |-> Undef,
   called |-> <<>>, ioKey |-> Undef, err |-> Undef, thrown |-> Undef, attempts |-> 0]

Init ==
  /\ resources = <<>>
  /\ collections = [c \in CollIds |-> NoCollection]
  /\ members = {}
  /\ blobs = [k \in Keys |-> IF k = "k1" THEN "cK" ELSE IF k = "pk1" THEN "cP" ELSE Undef]
  /\ indexed = {}
  /\ queue = <<>>
  /\ delivered = <<>>
  /\ run = IdleRun
  /\ lastOp = [op |-> "none", user |-> 0, result |-> "none"]
  /\ accounts = [u \in Users |-> [subscriptionId |-> 0, customerId |-> 0]]
  /\ sessions = <<>>
  /\ subs = [i \in SubIds |-> NoSubscription]
  /\ meters = <<>>
  /\ tokenUsages = <<>>
  /\ now = 0
  /\ subOp = [op |-> "none", err |-> Undef, tiers |-> {}, at |-> 0, id |-> 0]
  /\ txs = [c \in Callers |-> NoTx]

Returned(op, u, res) == [op |-> op, user |-> u, result |-> res]

\* ------------------------------------------------------------ collections
\* genCollectionID(): an id no row uses
FreshCollIds == {c \in CollIds : ~collections[c].exists}
genCollectionID == CHOOSE c \in FreshCollIds : \A d \in FreshCollIds : c <= d

\* upsertCollection(user, param): cid = 0 is "param.collectionId not given"
UpsertCollection(u, cid, title) ==
  /\ cid = 0 => FreshCollIds # {}
  /\ LET id == IF cid = 0 THEN genCollectionID ELSE cid
     IN  collections' =
           [collections EXCEPT ![id] =
              IF collections[id].exists
              THEN [@ EXCEPT !.title = title]
              ELSE [exists |-> TRUE, userId |-> u, title |-> title, deleted |-> FALSE]]
  /\ lastOp' = Returned("upsertCollection", u, "ok")
  /\ UNCHANGED <<resources, members, blobs, indexed, queue, delivered, run, svars>>

\* deleteCollection(user, collectionId)
DeleteCollection(u, cid) ==
  LET coll == collections[cid] IN
  /\ IF ~(coll.exists /\ ~coll.deleted)
     THEN /\ lastOp' = Returned("deleteCollection", u, "BadRequest")
          /\ UNCHANGED collections
     ELSE IF coll.userId # u
     THEN /\ lastOp' = Returned("deleteCollection", u, "Unauthorized")
          /\ UNCHANGED collections
     ELSE /\ lastOp' = Returned("deleteCollection", u, "ok")
          /\ collections' = [collections EXCEPT ![cid].deleted = TRUE]
  /\ UNCHANGED <<resources, members, blobs, indexed, queue, delivered, run, svars>>

\* -------------------------------------------------------------- resources
\* createResourceError without the url / linkId check of line 191
createResourceErrorNoUrlCheck(p) ==
  IF p.resourceType = "weblink"
  THEN IF ~p.hasData THEN "data is required" ELSE "ok"
  ELSE IF p.resourceType = "note" THEN "ok"
  ELSE "Invalid resource type"

\* The validation of createResource (knowledge.service.ts 186-199)
createResourceError(p) ==
  IF p.resourceType = "weblink"
  THEN IF ~p.hasData THEN "data is required"
       ELSE IF Falsy(p.data.url) /\ Falsy(p.data.linkId) THEN "url or linkId is required"
       ELSE "ok"
  ELSE IF p.resourceType = "note" THEN "ok"
  ELSE "Invalid resource type"

\* readOnlyDefault that ignores the caller's value
readOnlyByType(p) == p.resourceType = "weblink"

\* param.readOnly after lines 182-184
readOnlyDefault(p) ==
  IF p.readOnly = Undef THEN p.resourceType = "weblink" ELSE p.readOnly = "true"

\* param.title after line 194
createTitle(p) ==
  IF p.resourceType = "weblink" THEN OrElse(p.title, p.data.title) ELSE p.title

\* The row prisma.resource.create writes (lines 201-211)
NewResourceRow(u, p) ==
  [userId |-> u,
   resourceType |-> p.resourceType,
   hasMeta |-> p.hasData,
   meta |-> p.data,
   storageKey |-> p.storageKey,
   readOnly |-> readOnlyDefault(p),
   title |-> OrElse(createTitle(p), "Untitled"),
   indexStatus |-> "processing",
   deleted |-> FALSE]

\* The payload of queue.add: { ...param, userId: user.id } (line 225)
NewTask(u, p, rid, cid) ==
  [resourceId |-> rid, userId |-> u, collectionId |-> cid,
   resourceType |-> p.resourceType, hasData |-> p.hasData, data |-> p.data,
   storageKey |-> p.storageKey, content |-> p.content, title |-> createTitle(p)]

\* queue.add(CHANNEL_FINALIZE_RESOURCE, ...)
Enqueue(q, task) == Append(q, task)

\* createResource(user, param): p.collectionId = 0 is "not specified"
CreateResource(u, p) ==
  IF createResourceError(p) # "ok"
  THEN /\ lastOp' = Returned("createResource", u, "BadRequest")
       /\ UNCHANGED <<resources, collections, members, blobs, indexed, queue, delivered, run, svars>>
  ELSE /\ Len(resources) < MaxResources
       /\ p.collectionId = 0 => FreshCollIds # {}
       /\ LET rid == Len(resources) + 1
              cid == IF p.collectionId = 0 THEN genCollectionID ELSE p.collectionId
          IN  /\ resources' = Append(resources, NewResourceRow(u, p))
              /\ collections' =
                   IF collections[cid].exists THEN collections
                   ELSE [collections EXCEPT ![cid] =
                           [exists |-> TRUE, userId |-> u,
                            title |-> "Default Collection", deleted |-> FALSE]]
              /\ members' = members \cup {<<rid, cid>>}
              /\ queue' = Enqueue(queue, NewTask(u, p, rid, cid))
              /\ delivered' = Append(delivered, 0)
       /\ lastOp' = Returned("createResource", u, "ok")
       /\ UNCHANGED <<blobs, indexed, run, svars>>

\* updateResource(user, param)
\*   q.resourceId, q.title / q.readOnly (Undef: not given), q.hasData, q.data,
\*   q.content, q.storageKey
UpdateResource(u, q) ==
  LET uploads == ~Falsy(q.content)
      found == q.resourceId \in 1..Len(resources) /\ resources[q.resourceId].userId = u
  IN
  \* minio.uploadData(param.storageKey, param.content) precedes the row update
  /\ uploads => q.storageKey \in Keys
  /\ blobs' = IF uploads THEN [blobs EXCEPT ![q.storageKey] = q.content] ELSE blobs
  /\ IF found
     THEN /\ resources' =
               [resources EXCEPT ![q.resourceId] =
                  [@ EXCEPT !.title = IF q.title = Undef THEN @ ELSE q.title,
                            !.readOnly = IF q.readOnly = Undef THEN @ ELSE q.readOnly = "true",
                            !.hasMeta = IF q.hasData THEN TRUE ELSE @,
                            !.meta = IF q.hasData THEN q.data ELSE @]]
          /\ lastOp' = Returned("updateResource", u, "ok")
     ELSE /\ UNCHANGED resources
          /\ lastOp' = Returned("updateResource", u, "RecordNotFound")
  /\ UNCHANGED <<collections, members, indexed, queue, delivered, run, svars>>

\* deleteResource(user, resourceId)
DeleteResource(u, rid) ==
  LET found == rid \in 1..Len(resources) /\ ~resources[rid].deleted IN
  /\ IF ~found
     THEN /\ lastOp' = Returned("deleteResource", u, "BadRequest")
          /\ UNCHANGED <<resources, indexed>>
     ELSE IF resources[rid].userId # u
     THEN /\ lastOp' = Returned("deleteResource", u, "Unauthorized")
          /\ UNCHANGED <<resources, indexed>>
     ELSE \* Promise.all([ragService.deleteResourceData, resource.update deletedAt])
          /\ indexed' = indexed \ {rid}
          /\ resources' = [resources EXCEPT ![rid].deleted = TRUE]
          /\ lastOp' = Returned("deleteResource", u, "ok")
  /\ UNCHANGED <<collections, members, blobs, queue, delivered, run, svars>>

\* ---------------------------------------------------------------- queries
\* The queries are pure reads.  A result is the set of resourceIds returned
\* over all pages (skip/take and the updatedAt order select among these rows).

\* listResources({ collectionId }): lines 120-132
listResourcesByCollection(cid) ==
  IF collections[cid].exists /\ ~collections[cid].deleted
  THEN {r \in 1..Len(resources) : <<r, cid>> \in members}
  ELSE {}

\* listResources({ resourceId }): lines 134-144
listResourcesById(rid) ==
  {r \in 1..Len(resources) : r = rid /\ ~resources[r].deleted}

\* getCollectionDetail(collectionId).resources: lines 46-72
getCollectionDetail(cid) ==
  IF collections[cid].exists /\ ~collections[cid].deleted
  THEN {r \in 1..Len(resources) : <<r, cid>> \in members}
  ELSE {}

\* getResourceDetail(resourceId): the row found by lines 151-153
getResourceDetail(rid) ==
  {r \in 1..Len(resources) : r = rid /\ ~resources[r].deleted}

\* ------------------------------------------------- the ingestion worker
\* finalizeResource(param) runs indexResource(user, param) inside try/catch.
\* One action per awaited call; `run` is the delivery in progress:
\*   pc          the call the run is about to make
\*   storageKey, content, title   param.storageKey / content / title as mutated
\*   called      the external calls made so far in this delivery, in order
\*   ioKey       the key passed to minio.downloadData / uploadData
\*   err         the call that threw ("TypeError": destructuring undefined data)
\*   thrown      the error finalizeResource itself raised to the queue
\*   attempts    invocations of indexResource in this delivery

Task == queue[run.task]

\* AfterLink without the crawl of lines 251-255
AfterLinkNoCrawl(storageKey, content, url) ==
  IF ~Falsy(storageKey) THEN "download" ELSE "upload"

\* Where indexResource goes once params.storageKey is settled (lines 248-251)
AfterLink(storageKey, content, url) ==
  IF ~Falsy(storageKey) THEN "download"
  ELSE IF Falsy(content) /\ ~Falsy(url) THEN "crawl"
  ELSE "upload"

\* Lines 265-271: index only non-empty content
AfterResolve(content) == IF ~Falsy(content) THEN "index" ELSE "update"

\* finalizeResource returns or throws: the locals of the delivery are gone
Return(r) == [r EXCEPT !.pc = "done", !.storageKey = Undef, !.content = Undef, !.title = Undef]

\* The queue hands a task to the worker: finalizeResource up to the first
\* awaited call of indexResource (lines 297-304, 232-237).
Deliver(t) ==
  /\ run.pc \in {"idle", "done"}
  /\ t \in 1..Len(queue)
  /\ delivered[t] < MaxDeliveries
  /\ delivered' = [delivered EXCEPT ![t] = @ + 1]
  /\ LET param == queue[t]
         started == [IdleRun EXCEPT !.task = t, !.resourceId = param.resourceId,
                                    !.userId = param.userId, !.title = param.title]
     IN  run' =
           IF param.userId \notin Users
           THEN Return(started)
           ELSE IF ~param.hasData
           THEN [started EXCEPT !.pc = "catch", !.err = "TypeError", !.attempts = 1]
           ELSE LET sk == OrElse(param.storageKey, param.data.storageKey)
                    content == OrElse(param.content, "")
                IN  [started EXCEPT
                       !.attempts = 1,
                       !.storageKey = sk,
                       !.content = content,
                       !.pc = IF ~Falsy(param.data.linkId) THEN "weblink"
                              ELSE AfterLink(sk, content, param.data.url)]
  /\ UNCHANGED <<resources, collections, members, blobs, indexed, queue, lastOp, svars>>

\* The calls a delivery has made, as a set
Called(r) == {r.called[i] : i \in 1..Len(r.called)}

ThrowingCalls == {"weblink", "download", "crawl", "upload", "index", "save", "update"}

\* CallThrows with a crawl failure swallowed: the run goes on with no content
CallThrowsCrawlIgnored ==
  /\ run.pc \in ThrowingCalls
  /\ run' = [run EXCEPT !.pc = IF run.pc = "crawl" THEN "upload" ELSE "catch",
                        !.err = run.pc,
                        !.called = Append(@, run.pc),
                        !.storageKey = IF run.pc = "upload"
                                       THEN ResourceKey(run.resourceId) ELSE @,
                        !.ioKey = IF run.pc = "upload" THEN ResourceKey(run.resourceId)
                                  ELSE IF run.pc = "download" THEN run.storageKey ELSE @]
  /\ UNCHANGED <<resources, collections, members, blobs, indexed, queue, delivered, lastOp, svars>>

\* Any awaited call of indexResource may reject; the catch block is next.
CallThrows ==
  /\ run.pc \in ThrowingCalls
  /\ run' = [run EXCEPT !.pc = "catch", !.err = run.pc,
                        !.called = Append(@, run.pc),
                        !.storageKey = IF run.pc = "upload"
                                       THEN ResourceKey(run.resourceId) ELSE @,
                        !.ioKey = IF run.pc = "upload" THEN ResourceKey(run.resourceId)
                                  ELSE IF run.pc = "download" THEN run.storageKey ELSE @]
  /\ UNCHANGED <<resources, collections, members, blobs, indexed, queue, delivered, lastOp, svars>>

\* FindWeblink that keeps a storage key the caller supplied
FindWeblinkKeepsSupplied ==
  /\ run.pc = "weblink"
  /\ LET sk == IF Task.data.linkId \in KnownLinks
               THEN OrElse(run.storageKey, parsedDocStorageKey(Task.data.linkId))
               ELSE run.storageKey
     IN  run' = [run EXCEPT !.storageKey = sk,
                            !.called = Append(@, "weblink"),
                            !.pc = AfterLink(sk, run.content, Task.data.url)]
  /\ UNCHANGED <<resources, collections, members, blobs, indexed, queue, delivered, lastOp, svars>>

\* prisma.weblink.findFirst({ where: { linkId } }): lines 237-246
FindWeblink ==
  /\ run.pc = "weblink"
  /\ LET sk == IF Task.data.linkId \in KnownLinks
               THEN parsedDocStorageKey(Task.data.linkId) ELSE run.storageKey
     IN  run' = [run EXCEPT !.storageKey = sk,
                            !.called = Append(@, "weblink"),
                            !.pc = AfterLink(sk, run.content, Task.data.url)]
  /\ UNCHANGED <<resources, collections, members, blobs, indexed, queue, delivered, lastOp, svars>>

\* minio.downloadData(param.storageKey): line 249; a missing object rejects
DownloadData ==
  /\ run.pc = "download"
  /\ run' = IF run.storageKey \in Keys /\ blobs[run.storageKey] # Undef
            THEN [run EXCEPT !.content = blobs[run.storageKey],
                             !.called = Append(@, "download"),
                             !.ioKey = run.storageKey,
                             !.pc = AfterResolve(blobs[run.storageKey])]
            ELSE [run EXCEPT !.pc = "catch", !.err = "download",
                             !.called = Append(@, "download"),
                             !.ioKey = run.storageKey]
  /\ UNCHANGED <<resources, collections, members, blobs, indexed, queue, delivered, lastOp, svars>>

\* ragService.crawlFromRemoteReader(url): lines 251-255
CrawlFromRemoteReader ==
  /\ run.pc = "crawl"
  /\ run' = [run EXCEPT !.content = CrawlContent,
                        !.title = OrElse(@, CrawlTitle),
                        !.called = Append(@, "crawl"),
                        !.pc = "upload"]
  /\ UNCHANGED <<resources, collections, members, blobs, indexed, queue, delivered, lastOp, svars>>

\* minio.uploadData(`resource/${resourceId}`, param.content): lines 257-258
UploadData ==
  /\ run.pc = "upload"
  /\ LET key == ResourceKey(run.resourceId)
     IN  /\ blobs' = [blobs EXCEPT ![key] = run.content]
         /\ run' = [run EXCEPT !.storageKey = key, !.ioKey = key,
                               !.called = Append(@, "upload"),
                               !.pc = AfterResolve(run.content)]
  /\ UNCHANGED <<resources, collections, members, indexed, queue, delivered, lastOp, svars>>

\* ragService.indexContent(...): lines 266-269
IndexContent ==
  /\ run.pc = "index"
  /\ run' = [run EXCEPT !.called = Append(@, "index"), !.pc = "save"]
  /\ UNCHANGED <<resources, collections, members, blobs, indexed, queue, delivered, lastOp, svars>>

\* ragService.saveDataForUser(user, { chunks }): line 270
SaveDataForUser ==
  /\ run.pc = "save"
  /\ indexed' = indexed \cup {run.resourceId}
  /\ run' = [run EXCEPT !.called = Append(@, "save"), !.pc = "update"]
  /\ UNCHANGED <<resources, collections, members, blobs, queue, delivered, lastOp, svars>>

\* FinishedRow keeping the storage key the caller put in data
FinishedRowCallerKey(row, r) ==
  [row EXCEPT !.storageKey = r.storageKey,
              !.indexStatus = "finish",
              !.hasMeta = TRUE,
              !.meta = [url |-> queue[r.task].data.url, linkId |-> Undef,
                        storageKey |-> queue[r.task].data.storageKey, title |-> r.title]]

\* The row indexResource writes at the end (lines 277-289)
FinishedRow(row, r) ==
  [row EXCEPT !.storageKey = r.storageKey,
              !.indexStatus = "finish",
              !.hasMeta = TRUE,
              !.meta = [url |-> Task.data.url, linkId |-> Undef,
                        storageKey |-> r.storageKey, title |-> r.title]]

UpdateRow ==
  /\ run.pc = "update"
  /\ resources' = [resources EXCEPT ![run.resourceId] = FinishedRow(@, run)]
  /\ run' = Return([run EXCEPT !.called = Append(@, "update")])
  /\ UNCHANGED <<collections, members, blobs, indexed, queue, delivered, lastOp, svars>>

\* FailedRow putting the row back to 'processing' for the retry
FailedRowProcessing(row) == [row EXCEPT !.indexStatus = "processing"]

\* FailedRow that leaves the row as it is
FailedRowUnmarked(row) == row

\* The row the catch block of finalizeResource writes (lines 308-311)
FailedRow(row) == [row EXCEPT !.indexStatus = "failed"]

\* CatchAndRethrow without the `throw err` of line 312
CatchAndSwallow ==
  /\ run.pc = "catch"
  /\ resources' = [resources EXCEPT ![run.resourceId] = FailedRow(@)]
  /\ run' = Return(run)
  /\ UNCHANGED <<collections, members, blobs, indexed, queue, delivered, lastOp, svars>>

\* The catch block of finalizeResource (lines 305-313): mark failed, rethrow.

CatchAndRethrow ==
  /\ run.pc = "catch"
  /\ resources' = [resources EXCEPT ![run.resourceId] = FailedRow(@)]
  /\ run' = Return([run EXCEPT !.thrown = run.err])
  /\ UNCHANGED <<collections, members, blobs, indexed, queue, delivered, lastOp, svars>>

Worker ==
  \/ \E t \in 1..MaxResources : Deliver(t)
  \/ CallThrows
  \/ FindWeblink
  \/ DownloadData
  \/ CrawlFromRemoteReader
  \/ UploadData
  \/ IndexContent
  \/ SaveDataForUser
  \/ UpdateRow
  \/ CatchAndRethrow

\* ------------------------------------------------------------- the inputs
Data(url, linkId, sk) == [url |-> url, linkId |-> linkId, storageKey |-> sk, title |-> Undef]

CreateParam(type, hasData, data, sk, content, readOnly, cid) ==
  [resourceType |-> type, hasData |-> hasData, data |-> data, storageKey |-> sk,
   content |-> content, title |-> Undef, readOnly |-> readOnly, collectionId |-> cid]

UpdateParam(rid, title, content, sk) ==
  [resourceId |-> rid, title |-> title, readOnly |-> Undef, hasData |-> FALSE,
   data |-> NoMeta, content |-> content, storageKey |-> sk]

\* Spec: one user drives the resource API while the worker ingests; two
\* resources.  One createResource input per way a creation can go.
CreateParams ==
  { CreateParam("weblink", TRUE, Data("u1", Undef, Undef), Undef, Undef, Undef, 1),
    CreateParam("weblink", TRUE, Data(Undef, "l1", Undef), Undef, Undef, Undef, 1),
    CreateParam("weblink", TRUE, Data(Undef, Undef, Undef), Undef, Undef, Undef, 1),
    CreateParam("weblink", FALSE, NoMeta, Undef, Undef, Undef, 1),
    CreateParam("pdf", TRUE, Data("u1", Undef, Undef), Undef, Undef, Undef, 1),
    CreateParam("note", FALSE, NoMeta, Undef, Undef, Undef, 0) }

UpdateParams == {UpdateParam(rid, "t2", Undef, Undef) : rid \in ResIds}

Api ==
  \/ \E p \in CreateParams : CreateResource(1, p)
  \/ \E q \in UpdateParams : UpdateResource(1, q)
  \/ \E rid \in ResIds : DeleteResource(1, rid)

Next == Api \/ Worker

Spec == Init /\ [][Next]_vars

\* SpecIngest: every shape of createResource input, ingested by the worker.
IngestParams ==
  {CreateParam(type, TRUE, Data(url, linkId, dsk), sk, content, Undef, 1) :
     type \in {"weblink", "note"}, url \in {Undef, "u1"}, linkId \in {Undef, "l1", "l2"},
     dsk \in {Undef, "k2"}, sk \in {Undef, "k1"}, content \in {Undef, "cA"}}
  \cup {CreateParam(type, TRUE, Data("u1", Undef, Undef), Undef, Undef, ro, 1) :
     type \in {"weblink", "note"}, ro \in {"true", "false"}}
  \cup {CreateParam(type, FALSE, NoMeta, Undef, Undef, Undef, 1) :
     type \in {"weblink", "note", "pdf"}}

NextIngest ==
  \/ \E p \in IngestParams : CreateResource(1, p) /\ Len(resources) < MaxIngest
  \/ \E rid \in 1..MaxIngest : DeleteResource(1, rid)
  \/ Worker

SpecIngest == Init /\ [][NextIngest]_vars

\* The queue delivers every task it holds and every awaited call of a run
\* returns or throws.
Fairness ==
  /\ \A t \in 1..MaxResources : SF_vars(Deliver(t))
  /\ WF_vars(FindWeblink) /\ WF_vars(DownloadData) /\ WF_vars(CrawlFromRemoteReader)
  /\ WF_vars(UploadData) /\ WF_vars(IndexContent) /\ WF_vars(SaveDataForUser)
  /\ WF_vars(UpdateRow) /\ WF_vars(CatchAndRethrow)

SpecFair == SpecIngest /\ Fairness

\* The CRUD surface as two users drive it (no ingestion in between)
CrudCreateParams ==
  { CreateParam("note", TRUE, Data(Undef, Undef, Undef), "k1", Undef, Undef, cid) :
      cid \in CollIds \cup {0} }

CrudUpdateParams ==
  {UpdateParam(rid, "t2", Undef, Undef) : rid \in ResIds}
  \cup {UpdateParam(rid, Undef, "cU", "k1") : rid \in ResIds}

CrudCallBy(a) ==
  \/ \E cid \in CollIds \cup {0}, t \in {"t1", "t2"} : UpsertCollection(a, cid, t)
  \/ \E cid \in CollIds : DeleteCollection(a, cid)
  \/ \E p \in CrudCreateParams : CreateResource(a, p)
  \/ \E q \in CrudUpdateParams : UpdateResource(a, q)
  \/ \E rid \in ResIds : DeleteResource(a, rid)

NextCrud == \E a \in Users : CrudCallBy(a)

SpecCrud == Init /\ [][NextCrud]_vars

\* ------------------------------------------------ the subscription service
\* Time is counted in ticks: a day is DayLen ticks and the month that
\* createUsageMeter adds to startAt is MonthLen ticks.
startOfDay(t) == t - (t % DayLen)

\* The subscriptionUsageQuota table: planType -> quotas
QuotaTable ==
  [free |-> [t1TokenQuota |-> 1, t2TokenQuota |-> 2],
   pro  |-> [t1TokenQuota |-> 2, t2TokenQuota |-> 3]]

\* getSubscriptionInfoFromLookupKey(lookupKey)
getSubscriptionInfoFromLookupKey(lookupKey) == [planType |-> "pro", interval |-> "monthly"]

\* at: the time of the call
SubReturned(op, err, tiers) ==
  [op |-> op, err |-> err, tiers |-> tiers, at |-> now, id |-> 0]

\* A webhook handler returned; id: the session or subscription of its event
EventReturned(op, id, err) ==
  [op |-> op, err |-> err, tiers |-> {}, at |-> now, id |-> id]

Meters == 1..Len(meters)

\* createCheckoutSession(user, { lookupKey }): stripe knows the price "pro_monthly"
CreateCheckoutSession(uid, lookupKey) ==
  /\ IF lookupKey # "pro_monthly"
     THEN /\ subOp' = SubReturned("createCheckoutSession", "BadRequest", {})
          /\ UNCHANGED sessions
     ELSE /\ Len(sessions) < MaxSessions
          /\ sessions' = Append(sessions, [uid |-> uid, lookupKey |-> lookupKey,
                                           paymentStatus |-> Undef, subscriptionId |-> 0])
          /\ subOp' = SubReturned("createCheckoutSession", Undef, {})
  /\ UNCHANGED <<accounts, subs, meters, tokenUsages, now, txs, kvars>>

\* handleCheckoutSessionCompleted(event): ev.id is the session id,
\* ev.uid the client_reference_id, ev.subscription the stripe subscription
HandleCheckoutSessionCompleted(ev) ==
  /\ subOp' = EventReturned("checkout.session.completed", ev.id, Undef)
  /\ IF \/ ev.payment_status # "paid"
        \/ ev.id \notin 1..Len(sessions)
        \/ sessions[ev.id].uid # ev.uid
     THEN UNCHANGED <<sessions, accounts>>
     ELSE /\ sessions' = [sessions EXCEPT ![ev.id].paymentStatus = ev.payment_status,
                                          ![ev.id].subscriptionId = ev.subscription]
          /\ accounts' = [accounts EXCEPT ![ev.uid].customerId = ev.uid]
  /\ UNCHANGED <<subs, meters, tokenUsages, now, txs, kvars>>

\* The last non-deleted meter of the user by startAt (lines 267-275)
lastMeters(uid) ==
  {m \in Meters : /\ meters[m].uid = uid /\ ~meters[m].deleted
                  /\ \A n \in Meters : meters[n].uid = uid /\ ~meters[n].deleted
                                         => meters[n].startAt <= meters[m].startAt}

\* createUsageMeter(user, sub, resumeLastMeter): the row it creates, or the
\* TypeError of reading sub.subscriptionId (line 285) when sub is null
createUsageMeter(uid, hasSub, subId, planType, resumeLastMeter) ==
  LET tokenQuota == QuotaTable[IF hasSub THEN planType ELSE "free"]
      startAt == IF resumeLastMeter /\ lastMeters(uid) # {}
                 THEN meters[CHOOSE m \in lastMeters(uid) : TRUE].endAt
                 ELSE startOfDay(now)
  IN  [err |-> IF hasSub THEN Undef ELSE "TypeError",
       meter |-> [uid |-> uid, subscriptionId |-> subId,
                  startAt |-> startAt, endAt |-> startAt + MonthLen,
                  t1TokenQuota |-> tokenQuota.t1TokenQuota, t1TokenUsed |-> 0,
                  t2TokenQuota |-> tokenQuota.t2TokenQuota, t2TokenUsed |-> 0,
                  deleted |-> FALSE]]

\* handleSubscriptionCreated(event) and the createSubscription it calls
HandleSubscriptionCreated(ev) ==
  LET paid == {i \in 1..Len(sessions) : /\ sessions[i].subscriptionId = ev.id
                                        /\ sessions[i].paymentStatus = "paid"}
  IN
  /\ IF paid = {}
     THEN /\ subOp' = EventReturned("customer.subscription.created", ev.id, Undef)
          /\ UNCHANGED <<subs, accounts, meters>>
     ELSE LET checkoutSession == sessions[CHOOSE i \in paid : \A j \in paid : j <= i]
              uid == checkoutSession.uid
              info == getSubscriptionInfoFromLookupKey(checkoutSession.lookupKey)
              current == accounts[uid].subscriptionId
              created == createUsageMeter(uid, TRUE, ev.id, info.planType, FALSE)
          IN  IF current # 0 /\ subs[current].status = "active"
              THEN /\ subOp' = EventReturned("customer.subscription.created", ev.id, Undef)
                   /\ UNCHANGED <<subs, accounts, meters>>
              ELSE IF subs[ev.id].exists
              THEN /\ subOp' = EventReturned("customer.subscription.created", ev.id,
                                             "UniqueConstraint")
                   /\ UNCHANGED <<subs, accounts, meters>>
              ELSE /\ subs' = [subs EXCEPT ![ev.id] =
                                 [exists |-> TRUE, uid |-> uid,
                                  planType |-> info.planType, status |-> ev.status]]
                   /\ accounts' = [accounts EXCEPT ![uid].subscriptionId = ev.id]
                   /\ meters' = Append(meters, created.meter)
                   /\ subOp' = EventReturned("customer.subscription.created", ev.id, Undef)
  /\ UNCHANGED <<sessions, tokenUsages, now, txs, kvars>>

\* handleSubscriptionUpdated(event) and the postSubscriptionCanceled it calls
HandleSubscriptionUpdated(ev) ==
  /\ IF ~subs[ev.id].exists
     THEN /\ subOp' = EventReturned("customer.subscription.updated", ev.id, "RecordNotFound")
          /\ UNCHANGED <<subs, accounts, meters>>
     ELSE /\ subs' = [subs EXCEPT ![ev.id].status = ev.status]
          /\ IF ev.status = "active"
             THEN /\ subOp' = EventReturned("customer.subscription.updated", ev.id, Undef)
                  /\ UNCHANGED <<accounts, meters>>
             ELSE LET uid == subs[ev.id].uid
                      canceled == [m \in Meters |->
                                     IF meters[m].subscriptionId = ev.id
                                     THEN [meters[m] EXCEPT !.deleted = TRUE]
                                     ELSE meters[m]]
                      created == createUsageMeter(uid, FALSE, 0, Undef, FALSE)
                  IN  /\ accounts' = [accounts EXCEPT ![uid].subscriptionId = 0]
                      /\ meters' = IF created.err = Undef
                                   THEN Append(canceled, created.meter)
                                   ELSE canceled
                      /\ subOp' = EventReturned("customer.subscription.updated", ev.id,
                                                created.err)
  /\ UNCHANGED <<sessions, tokenUsages, now, txs, kvars>>

\* The where clause of lines 229-234 and 310-315
activeMeters(uid, t) ==
  {m \in Meters : /\ meters[m].uid = uid
                  /\ meters[m].startAt <= t
                  /\ meters[m].endAt >= t
                  /\ ~meters[m].deleted}

\* availableTiers comparing used <= quota
availableTiersInclusive(meter) ==
  (IF meter.t1TokenUsed <= meter.t1TokenQuota THEN {"t1"} ELSE {})
  \cup (IF meter.t2TokenUsed <= meter.t2TokenQuota THEN {"t2"} ELSE {})

\* Lines 243-251
availableTiers(meter) ==
  (IF meter.t1TokenUsed < meter.t1TokenQuota THEN {"t1"} ELSE {})
  \cup (IF meter.t2TokenUsed < meter.t2TokenQuota THEN {"t2"} ELSE {})

\* checkTokenUsage(user)
CheckTokenUsage(uid) ==
  /\ IF activeMeters(uid, now) # {}
     THEN /\ \E m \in activeMeters(uid, now) :
               subOp' = SubReturned("checkTokenUsage", Undef, availableTiers(meters[m]))
          /\ UNCHANGED meters
     ELSE LET created == createUsageMeter(uid, FALSE, 0, Undef, TRUE)
          IN  IF created.err = Undef
              THEN /\ meters' = Append(meters, created.meter)
                   /\ subOp' = SubReturned("checkTokenUsage", Undef,
                                           availableTiers(created.meter))
              ELSE /\ UNCHANGED meters
                   /\ subOp' = SubReturned("checkTokenUsage", created.err, {})
  /\ UNCHANGED <<accounts, sessions, subs, tokenUsages, now, txs, kvars>>

\* usageTotal counting the input tokens only
usageTotalInputOnly(usage) == usage.inputTokens

\* usage.inputTokens + usage.outputTokens (line 318)
usageTotal(usage) == usage.inputTokens + usage.outputTokens

\* The meters after the updateMany of lines 309-321
incremented(uid, usage, timestamp) ==
  [m \in Meters |->
     IF m \in activeMeters(uid, timestamp)
     THEN IF usage.tier = "t1"
          THEN [meters[m] EXCEPT !.t1TokenUsed = @ + usageTotal(usage)]
          ELSE [meters[m] EXCEPT !.t2TokenUsed = @ + usageTotal(usage)]
     ELSE meters[m]]

\* updateTokenUsage(data): one $transaction, which commits or rolls back
UpdateTokenUsage(uid, usage, timestamp) ==
  /\ Len(tokenUsages) < MaxUsages
  /\ \/ /\ tokenUsages' = Append(tokenUsages, [uid |-> uid, tier |-> usage.tier,
                                               inputTokens |-> usage.inputTokens,
                                               outputTokens |-> usage.outputTokens])
        /\ meters' = incremented(uid, usage, timestamp)
        /\ subOp' = SubReturned("updateTokenUsage", Undef, {})
     \/ /\ UNCHANGED <<tokenUsages, meters>>
        /\ subOp' = SubReturned("updateTokenUsage", "TransactionFailed", {})
  /\ UNCHANGED <<accounts, sessions, subs, now, txs, kvars>>

\* Time passes
Tick ==
  /\ now < MaxTime
  /\ now' = now + 1
  /\ UNCHANGED <<accounts, sessions, subs, meters, tokenUsages, subOp, txs, kvars>>

\* stripe reports a new subscription as incomplete or active, and a change
\* of an existing one as active or canceled
CreatedStatuses == {"active", "incomplete"}
UpdatedStatuses == {"active", "canceled"}

CheckoutEvents ==
  {[id |-> i, payment_status |-> ps, uid |-> u, subscription |-> i] :
     i \in 1..MaxSessions, ps \in {"paid", "unpaid"}, u \in Users}

CreatedEvents == [id : SubIds, status : CreatedStatuses]
UpdatedEvents == [id : SubIds, status : UpdatedStatuses]

Usages ==
  { [tier |-> "t1", inputTokens |-> 1, outputTokens |-> 0],
    [tier |-> "t2", inputTokens |-> 1, outputTokens |-> 1] }

\* SpecSub: user 1 checks out, uses and reports; stripe's events may name
\* any user, session or subscription.
NextSub ==
  \/ \E k \in {"pro_monthly", "unknown"} : CreateCheckoutSession(1, k)
  \/ \E ev \in CheckoutEvents : HandleCheckoutSessionCompleted(ev)
  \/ \E ev \in CreatedEvents : HandleSubscriptionCreated(ev)
  \/ \E ev \in UpdatedEvents : HandleSubscriptionUpdated(ev)
  \/ CheckTokenUsage(1)
  \/ \E usage \in Usages, t \in 0..MaxTime : t <= now /\ UpdateTokenUsage(1, usage, t)
  \/ Tick

SpecSub == Init /\ [][NextSub]_vars

\* ------------------------------------- updateTokenUsage, statement by statement
\* prisma.$transaction([tokenUsage.create, usageMeter.updateMany]) is one
\* database transaction: BEGIN, INSERT, UPDATE, COMMIT.  What a transaction
\* writes is visible to the others at its COMMIT; a row it has updated stays
\* locked for writing until it commits or rolls back.
\*   pc         the statement the transaction is about to run
\*   locked     the meter rows its UPDATE matched and changed
\*   written    those rows as its UPDATE wrote them

\* updateTokenUsage(data) is called: BEGIN (line 299)
TxBegin(c, usage, timestamp) ==
  /\ txs[c].pc = "idle"
  /\ txs' = [txs EXCEPT ![c] = [NoTx EXCEPT !.pc = "create", !.usage = usage,
                                            !.timestamp = timestamp]]
  /\ UNCHANGED <<accounts, sessions, subs, meters, tokenUsages, now, subOp, kvars>>

\* prisma.tokenUsage.create (lines 300-308): the INSERT, not yet committed
TxCreateTokenUsage(c) ==
  /\ txs[c].pc = "create"
  /\ txs' = [txs EXCEPT ![c].pc = "updateMany"]
  /\ UNCHANGED <<accounts, sessions, subs, meters, tokenUsages, now, subOp, kvars>>

\* TxUpdateMany as a read-modify-write that does not wait for the row lock
TxUpdateManyUnlocked(c, uid) ==
  /\ txs[c].pc = "updateMany"
  /\ txs' = [txs EXCEPT ![c].pc = "commit",
                        ![c].locked = activeMeters(uid, txs[c].timestamp),
                        ![c].written = incremented(uid, txs[c].usage, txs[c].timestamp)]
  /\ UNCHANGED <<accounts, sessions, subs, meters, tokenUsages, now, subOp, kvars>>

\* prisma.usageMeter.updateMany (lines 309-321): UPDATE ... SET used = used + n
\* waits for the lock of every row it matches, then increments the row's
\* latest committed value.
TxUpdateMany(c, uid) ==
  /\ txs[c].pc = "updateMany"
  /\ \A d \in Callers \ {c} : txs[d].locked \cap activeMeters(uid, txs[c].timestamp) = {}
  /\ txs' = [txs EXCEPT ![c].pc = "commit",
                        ![c].locked = activeMeters(uid, txs[c].timestamp),
                        ![c].written = incremented(uid, txs[c].usage, txs[c].timestamp)]
  /\ UNCHANGED <<accounts, sessions, subs, meters, tokenUsages, now, subOp, kvars>>

\* COMMIT: the inserted row and the updated rows become visible (line 322)
TxCommit(c, uid) ==
  /\ txs[c].pc = "commit"
  /\ tokenUsages' = Append(tokenUsages, [uid |-> uid, tier |-> txs[c].usage.tier,
                                         inputTokens |-> txs[c].usage.inputTokens,
                                         outputTokens |-> txs[c].usage.outputTokens])
  /\ meters' = [m \in Meters |-> IF m \in txs[c].locked THEN txs[c].written[m]
                                 ELSE meters[m]]
  /\ txs' = [txs EXCEPT ![c].pc = "done", ![c].locked = {}, ![c].written = <<>>]
  /\ subOp' = SubReturned("updateTokenUsage", Undef, {})
  /\ UNCHANGED <<accounts, sessions, subs, now, kvars>>

\* A statement fails: ROLLBACK, nothing of the transaction is visible
TxRollback(c) ==
  /\ txs[c].pc \in {"create", "updateMany", "commit"}
  /\ txs' = [txs EXCEPT ![c].pc = "failed", ![c].locked = {}, ![c].written = <<>>]
  /\ subOp' = SubReturned("updateTokenUsage", "TransactionFailed", {})
  /\ UNCHANGED <<accounts, sessions, subs, meters, tokenUsages, now, kvars>>

\* SpecConc: user 1 subscribes and gets the meter of the plan; then the
\* callers report usage of user 1 against that meter concurrently.
NextConc ==
  \/ CreateCheckoutSession(1, "pro_monthly")
  \/ HandleCheckoutSessionCompleted([id |-> 1, payment_status |-> "paid", uid |-> 1,
                                     subscription |-> 1])
  \/ HandleSubscriptionCreated([id |-> 1, status |-> "active"])
  \/ \E c \in Callers, usage \in Usages :
       activeMeters(1, now) # {} /\ TxBegin(c, usage, now)
  \/ \E c \in Callers : TxCreateTokenUsage(c)
  \/ \E c \in Callers : TxUpdateMany(c, 1)
  \/ \E c \in Callers : TxCommit(c, 1)
  \/ \E c \in Callers : TxRollback(c)

SpecConc == Init /\ [][NextConc]_vars

\* ======================================================= properties
Rows == 1..Len(resources)

\* C1 (as claimed): the persisted indexStatus only ever changes from
\* 'processing' to 'finish' or from 'processing' to 'failed'; no write moves it
\* out of 'finish' or 'failed'.
C1_OnlyLeavesProcessing ==
  [][\A r \in Rows :
       resources'[r].indexStatus # resources[r].indexStatus
         => /\ resources[r].indexStatus = "processing"
            /\ resources'[r].indexStatus \in {"finish", "failed"}]_vars

\* C1 (amended): a row is created 'processing' and never re-enters it: every
\* change of indexStatus is the final write of an ingestion delivery of that
\* resource, to 'finish' or to 'failed' (a re-delivered task may overwrite
\* either with the other); update and delete calls never change it.
C1_NeverReentersProcessing ==
  [][/\ \A r \in Rows :
          resources'[r].indexStatus # resources[r].indexStatus
            => /\ resources'[r].indexStatus \in {"finish", "failed"}
               /\ run.resourceId = r
               /\ run.pc \in {"update", "catch"}
               /\ run'.pc = "done"
     /\ \A r \in 1..Len(resources') :
          r \notin Rows => resources'[r].indexStatus = "processing"]_vars

\* A second delivery of a task has finished and left the row 'finish'.
C1_Witness ==
  /\ run.pc = "done"
  /\ delivered[run.task] = 2
  /\ run.thrown = Undef
  /\ resources[run.resourceId].indexStatus = "finish"

\* C2 (as claimed): no mutating call by user a changes a Collection row, a
\* Resource row or the stored content of a record that another user owns.
C2_NoCrossUserMutation ==
  [][\A a \in Users :
       CrudCallBy(a) =>
         /\ \A c \in CollIds :
              collections[c].exists /\ collections[c].userId # a
                => collections'[c] = collections[c]
         /\ \A r \in Rows :
              resources[r].userId # a => resources'[r] = resources[r]
         /\ \A k \in Keys :
              /\ \E r \in Rows : resources[r].userId # a /\ resources[r].storageKey = k
              /\ ~\E r \in Rows : resources[r].userId = a /\ resources[r].storageKey = k
              => blobs'[k] = blobs[k]]_vars

\* C3 (as claimed): a soft-deleted resource is returned by no list or detail
\* query.
C3_DeletedNeverReturned ==
  \A r \in Rows :
    resources[r].deleted =>
      /\ r \notin listResourcesById(r)
      /\ r \notin getResourceDetail(r)
      /\ \A c \in CollIds :
           r \notin listResourcesByCollection(c) /\ r \notin getCollectionDetail(c)

\* C5: a createResource whose input is a weblink with neither url nor linkId,
\* a weblink without data or an unknown resourceType fails with a validation
\* error and persists and enqueues nothing; every other createResource appends
\* one row and one task for that row, so that each row has exactly one task and
\* no task is without its row.
InvalidCreate(p) ==
  \/ /\ p.resourceType = "weblink"
     /\ ~p.hasData \/ (Falsy(p.data.url) /\ Falsy(p.data.linkId))
  \/ p.resourceType \notin {"weblink", "note"}

OneJobPerRow ==
  /\ Len(queue) = Len(resources)
  /\ \A r \in Rows : Cardinality({t \in 1..Len(queue) : queue[t].resourceId = r}) = 1

C5_ValidationBeforePersist ==
  [][/\ \A p \in CreateParams :
          CreateResource(1, p) =>
            IF InvalidCreate(p)
            THEN /\ lastOp'.result = "BadRequest"
                 /\ UNCHANGED <<resources, collections, members, queue>>
            ELSE /\ lastOp'.result = "ok"
                 /\ Len(resources') = Len(resources) + 1
                 /\ Len(queue') = Len(queue) + 1
                 /\ queue'[Len(queue')].resourceId = Len(resources')
     /\ OneJobPerRow']_vars

\* A creation was rejected after another one had persisted its row and task.
C5_Witness ==
  /\ lastOp.op = "createResource" /\ lastOp.result = "BadRequest"
  /\ Len(resources) = 1 /\ Len(queue) = 1

\* C6: the write that ends an ingestion run without error sets indexStatus =
\* 'finish' and sets both the storageKey column and meta.storageKey to the key
\* the run downloaded from or uploaded to, which holds the ingested content.
C6_FinishRecordsActualKey ==
  [][run.pc = "update" /\ run'.pc = "done" =>
       LET row == resources'[run.resourceId] IN
         /\ row.indexStatus = "finish"
         /\ Called(run) \cap {"download", "upload"} # {}
         /\ run.ioKey \in Keys
         /\ row.storageKey = run.ioKey
         /\ row.meta.storageKey = run.ioKey
         /\ blobs'[run.ioKey] = run.content]_vars

\* A run that read the crawl record's document has finished.
C6_Witness ==
  /\ run.pc = "done" /\ run.thrown = Undef /\ run.err = Undef
  /\ "download" \in Called(run)
  /\ resources[run.resourceId].indexStatus = "finish"
  /\ resources[run.resourceId].storageKey = "pk1"
  /\ resources[run.resourceId].meta.storageKey = "pk1"

\* C7: when a call of an ingestion run throws, the run goes to the catch block
\* and nowhere else; the catch block persists indexStatus = 'failed' and
\* finalizeResource raises that same error; indexResource is invoked at most
\* once per delivery.
C7_FailureMarksFailedAndRethrows ==
  [][/\ run.pc \in ThrowingCalls /\ run'.pc = "catch"
          => run'.err = run.pc /\ resources' = resources
     /\ run.pc = "catch" /\ run' # run
          => /\ run'.pc = "done"
             /\ run.err # Undef
             /\ run'.thrown = run.err
             /\ resources'[run.resourceId].indexStatus = "failed"
     /\ run'.pc = "done" /\ run.pc # "done" /\ run'.err # Undef => run.pc = "catch"
     /\ run'.attempts <= 1]_vars

\* The final row update threw; the row is 'failed' and the error was re-raised.
C7_Witness ==
  /\ run.pc = "done" /\ run.err = "update" /\ run.thrown = "update"
  /\ resources[run.resourceId].indexStatus = "failed"

\* C8: in a run whose crawlFromRemoteReader call threw, indexContent,
\* saveDataForUser and uploadData are not called, and the run ends with the
\* row 'failed'.
C8_CrawlFailureIndexesNothing ==
  run.err = "crawl" =>
    /\ Called(run) \cap {"index", "save", "upload"} = {}
    /\ run.pc \in {"catch", "done"}
    /\ run.pc = "done" =>
         /\ run.thrown = "crawl"
         /\ resources[run.resourceId].indexStatus = "failed"

\* A run has ended on a crawl failure.
C8_Witness ==
  /\ run.pc = "done" /\ run.err = "crawl"
  /\ resources[run.resourceId].indexStatus = "failed"

C4_AtMostOneActiveMeter ==
  \A u \in Users :
    Cardinality({m \in Meters : /\ meters[m].uid = u
                                /\ ~meters[m].deleted
                                /\ meters[m].startAt <= now
                                /\ now < meters[m].endAt}) <= 1

\* C10: an updateTokenUsage that succeeds appends exactly one TokenUsage row
\* and adds inputTokens + outputTokens to the reported tier's used-counter of
\* every non-deleted meter of the user whose window contains the timestamp,
\* leaving the other tier's counter, the quotas and the number of meters as
\* they were; one that fails changes neither table.
C10_UsageReportExact ==
  [][\A usage \in Usages, t \in 0..MaxTime :
       UpdateTokenUsage(1, usage, t) =>
         IF subOp'.err = Undef
         THEN /\ tokenUsages' =
                   Append(tokenUsages, [uid |-> 1, tier |-> usage.tier,
                                        inputTokens |-> usage.inputTokens,
                                        outputTokens |-> usage.outputTokens])
              /\ Len(meters') = Len(meters)
              /\ \A m \in Meters :
                   LET used(row) == IF usage.tier = "t1" THEN row.t1TokenUsed
                                    ELSE row.t2TokenUsed
                       other(row) == IF usage.tier = "t1" THEN row.t2TokenUsed
                                     ELSE row.t1TokenUsed
                   IN  /\ /\ meters[m].uid = 1 /\ ~meters[m].deleted
                          /\ meters[m].startAt <= t /\ t < meters[m].endAt
                          => used(meters'[m]) =
                               used(meters[m]) + usage.inputTokens + usage.outputTokens
                       /\ other(meters'[m]) = other(meters[m])
                       /\ meters'[m].t1TokenQuota = meters[m].t1TokenQuota
                       /\ meters'[m].t2TokenQuota = meters[m].t2TokenQuota
         ELSE UNCHANGED <<tokenUsages, meters>>]_vars

\* One t2 report of 1 + 1 tokens has been booked on a meter.
C10_Witness ==
  /\ subOp.op = "updateTokenUsage" /\ subOp.err = Undef
  /\ Len(tokenUsages) = 1 /\ tokenUsages[1].tier = "t2"
  /\ \E m \in Meters : meters[m].t2TokenUsed = 2 /\ meters[m].t1TokenUsed = 0

\* The tokens of the committed reports of one tier
CommittedTotal(tier) ==
  LET Total[n \in 0..MaxCallers] ==
        IF n = 0 THEN 0
        ELSE Total[n - 1] +
             (IF txs[n].pc = "done" /\ txs[n].usage.tier = tier
              THEN txs[n].usage.inputTokens + txs[n].usage.outputTokens ELSE 0)
  IN  Total[MaxCallers]

\* C11: however the statements of concurrent updateTokenUsage calls against
\* one meter interleave, the meter's used-counter of each tier is the sum of
\* inputTokens + outputTokens over the committed calls of that tier, and there
\* is one TokenUsage row per committed call: no update is lost.
C11_NoLostUpdate ==
  /\ Len(tokenUsages) = Cardinality({c \in Callers : txs[c].pc = "done"})
  /\ \A m \in Meters :
       /\ meters[m].t1TokenUsed = CommittedTotal("t1")
       /\ meters[m].t2TokenUsed = CommittedTotal("t2")

\* Every caller has committed a t2 report of 1 + 1 tokens on the meter.
C11_Witness ==
  /\ \A c \in Callers : txs[c].pc = "done" /\ txs[c].usage.tier = "t2"
  /\ Len(tokenUsages) = MaxCallers
  /\ \E m \in Meters : meters[m].t2TokenUsed = 2 * MaxCallers

\* C12: a checkTokenUsage that finds an active meter of the user returns,
\* for that meter, t1 exactly when t1TokenUsed < t1TokenQuota and t2 exactly
\* when t2TokenUsed < t2TokenQuota; so a tier whose used-counter has reached
\* its quota is no longer returned.
C12_TierAvailableIffUnderQuota ==
  [][CheckTokenUsage(1) /\ activeMeters(1, now) # {} =>
       /\ subOp'.err = Undef
       /\ subOp'.tiers \subseteq {"t1", "t2"}
       /\ \E m \in Meters :
            /\ meters[m].uid = 1 /\ ~meters[m].deleted
            /\ meters[m].startAt <= now /\ now <= meters[m].endAt
            /\ "t1" \in subOp'.tiers <=> meters[m].t1TokenUsed < meters[m].t1TokenQuota
            /\ "t2" \in subOp'.tiers <=> meters[m].t2TokenUsed < meters[m].t2TokenQuota]_vars

\* The t1 report of one token that took the meter from quota - 1 to its quota
\* has been booked, and the check that followed returned t2 only.
C12_Witness ==
  /\ subOp.op = "checkTokenUsage" /\ subOp.err = Undef /\ subOp.tiers = {"t2"}
  /\ Len(tokenUsages) >= 1
  /\ tokenUsages[Len(tokenUsages)].tier = "t1"
  /\ tokenUsages[Len(tokenUsages)].inputTokens + tokenUsages[Len(tokenUsages)].outputTokens = 1
  /\ \E m \in Meters :
       /\ meters[m].uid = 1 /\ ~meters[m].deleted
       /\ meters[m].startAt <= now /\ now < meters[m].endAt
       /\ meters[m].t1TokenUsed = meters[m].t1TokenQuota
       /\ meters[m].t2TokenUsed < meters[m].t2TokenQuota

\* C13 (as claimed): every checkTokenUsage returns a tier set, and one that
\* follows another checkTokenUsage of the same user at once, with no other
\* call in between, returns the same tier set and creates no usage meter.
C13_CheckIdempotent ==
  [][CheckTokenUsage(1) =>
       /\ subOp'.err = Undef
       /\ subOp.op = "checkTokenUsage" /\ subOp.at = now
            => /\ subOp'.tiers = subOp.tiers
               /\ meters' = meters]_vars

\* C14 (as claimed): a checkTokenUsage that finds no active meter of the user
\* returns without error and adds exactly one meter: of that user, not
\* deleted, with zero used-counters and the free-plan quotas, starting at the
\* endAt of the user's last non-deleted meter, or at the start of the current
\* day when the user has none.
C14_LazyMeterCreated ==
  [][CheckTokenUsage(1) /\ activeMeters(1, now) = {} =>
       /\ subOp'.err = Undef
       /\ Len(meters') = Len(meters) + 1
       /\ \A m \in Meters : meters'[m] = meters[m]
       /\ LET new == meters'[Len(meters')]
              mine == {m \in Meters : meters[m].uid = 1 /\ ~meters[m].deleted}
          IN  /\ new.uid = 1 /\ ~new.deleted
              /\ new.t1TokenUsed = 0 /\ new.t2TokenUsed = 0
              /\ new.t1TokenQuota = QuotaTable.free.t1TokenQuota
              /\ new.t2TokenQuota = QuotaTable.free.t2TokenQuota
              /\ IF mine = {} THEN new.startAt = startOfDay(now)
                 ELSE \E m \in mine :
                        /\ \A n \in mine : meters[n].startAt <= meters[m].startAt
                        /\ new.startAt = meters[m].endAt]_vars

\* C15 (as claimed): handling customer.subscription.updated with status
\* 'canceled' for the current subscription of a user clears that user's
\* subscriptionId, soft-deletes every usage meter of the subscription and
\* adds exactly one meter: of that user, not deleted, with the free-plan
\* quotas.
C15_CancelResetsToFreeMeter ==
  [][\A ev \in UpdatedEvents :
       /\ ev.status = "canceled"
       /\ subs[ev.id].exists
       /\ accounts[subs[ev.id].uid].subscriptionId = ev.id
       /\ HandleSubscriptionUpdated(ev)
       => LET uid == subs[ev.id].uid IN
            /\ subOp'.err = Undef
            /\ accounts'[uid].subscriptionId = 0
            /\ \A m \in Meters : meters[m].subscriptionId = ev.id => meters'[m].deleted
            /\ Len(meters') = Len(meters) + 1
            /\ meters'[Len(meters')].uid = uid
            /\ ~meters'[Len(meters')].deleted
            /\ meters'[Len(meters')].t1TokenQuota = QuotaTable.free.t1TokenQuota
            /\ meters'[Len(meters')].t2TokenQuota = QuotaTable.free.t2TokenQuota]_vars

\* C16 (as claimed): no webhook event sets the status of a Subscription
\* record that is 'canceled' back to 'active'.
C16_CanceledNeverReactivated ==
  [][\A s \in SubIds :
       subs[s].exists /\ subs[s].status = "canceled" => subs'[s].status # "active"]_vars

\* The persisted tables of the subscription service
Persisted == <<accounts, sessions, subs, meters, tokenUsages>>

\* C17 (as claimed): a webhook handler whose event refers to a missing or
\* mismatching local record (no checkout session of that id, or one of another
\* uid; no paid checkout session of the subscription; no Subscription row of
\* that id) returns without error and changes no table.
C17_DanglingEventDropped ==
  [][/\ \A ev \in CheckoutEvents :
          /\ ev.id \notin 1..Len(sessions) \/ sessions[ev.id].uid # ev.uid
          /\ HandleCheckoutSessionCompleted(ev)
          => subOp'.err = Undef /\ UNCHANGED Persisted
     /\ \A ev \in CreatedEvents :
          /\ ~\E i \in 1..Len(sessions) : /\ sessions[i].subscriptionId = ev.id
                                          /\ sessions[i].paymentStatus = "paid"
          /\ HandleSubscriptionCreated(ev)
          => subOp'.err = Undef /\ UNCHANGED Persisted
     /\ \A ev \in UpdatedEvents :
          /\ ~subs[ev.id].exists
          /\ HandleSubscriptionUpdated(ev)
          => subOp'.err = Undef /\ UNCHANGED Persisted]_vars

\* A weblink task with a url and no storage key, linkId or inline content
UrlOnlyWeblink(task) ==
  /\ task.resourceType = "weblink" /\ task.hasData
  /\ ~Falsy(task.data.url) /\ Falsy(task.data.linkId)
  /\ Falsy(task.storageKey) /\ Falsy(task.data.storageKey)
  /\ Falsy(task.content)

\* C18: an ingestion run of a weblink with a url and no storage key, linkId
\* or inline content in which no call throws makes exactly the calls crawl,
\* upload, index, save, update in that order (one crawl, the upload before any
\* indexing), uploads the crawled content under 'resource/<resourceId>',
\* records that key on the row and in its meta, and leaves the row 'finish';
\* such a run ends without error only in that way.
C18_UrlWeblinkCrawledOnceThenStored ==
  [][run.pc # "idle" /\ UrlOnlyWeblink(Task) /\ run'.pc = "done" /\ run.pc # "done"
       /\ run'.err = Undef =>
       LET key == ResourceKey(run.resourceId)
           row == resources'[run.resourceId]
       IN  /\ run'.called = <<"crawl", "upload", "index", "save", "update">>
           /\ run'.ioKey = key
           /\ blobs'[key] = CrawlContent
           /\ row.storageKey = key
           /\ row.meta.storageKey = key
           /\ row.indexStatus = "finish"]_vars

\* A run of a url-only weblink has ended without error.
C18_Witness ==
  /\ run.pc = "done" /\ run.err = Undef
  /\ UrlOnlyWeblink(Task)
  /\ run.called = <<"crawl", "upload", "index", "save", "update">>
  /\ blobs[ResourceKey(run.resourceId)] = CrawlContent
  /\ resources[run.resourceId].indexStatus = "finish"
  /\ resources[run.resourceId].storageKey = ResourceKey(run.resourceId)

\* C19 (as claimed): a run of a resource of type 'note' never calls
\* crawlFromRemoteReader.
C19_NoteNeverCrawled ==
  run.pc # "idle" /\ Task.resourceType = "note" =>
    run.pc # "crawl" /\ "crawl" \notin Called(run)

\* C20: createResource persists readOnly = false for a note and readOnly =
\* true for a weblink when readOnly is not given, and the caller's value for
\* either type when it is given.
C20_ReadOnlyDefault ==
  [][\A p \in IngestParams :
       CreateResource(1, p) /\ lastOp'.result = "ok" =>
         LET row == resources'[Len(resources')] IN
           /\ Len(resources') = Len(resources) + 1
           /\ p.readOnly = Undef /\ p.resourceType = "note" => row.readOnly = FALSE
           /\ p.readOnly = Undef /\ p.resourceType = "weblink" => row.readOnly = TRUE
           /\ p.readOnly = "true" => row.readOnly = TRUE
           /\ p.readOnly = "false" => row.readOnly = FALSE]_vars

\* A weblink created with an explicit readOnly = false is persisted writable.
C20_Witness ==
  /\ lastOp.op = "createResource" /\ lastOp.result = "ok"
  /\ \E r \in Rows : resources[r].resourceType = "weblink" /\ resources[r].readOnly = FALSE

\* A task that gives the run nothing to resolve content from: no inline
\* content, no storage key, and no data or data without url, linkId and
\* storage key
BlankTask(task) ==
  /\ Falsy(task.content) /\ Falsy(task.storageKey)
  /\ \/ ~task.hasData
     \/ Falsy(task.data.url) /\ Falsy(task.data.linkId) /\ Falsy(task.data.storageKey)

\* C21 (as claimed): a run of a resource whose resolved content is empty
\* calls neither indexContent nor saveDataForUser, fails only if one of its
\* external calls fails, and otherwise ends with indexStatus = 'finish'.
C21_BlankResourceFinishes ==
  run.pc # "idle" /\ BlankTask(Task) =>
    /\ Called(run) \cap {"index", "save"} = {}
    /\ run.err \in {Undef} \cup ThrowingCalls
    /\ run.pc = "done" /\ run.err = Undef
         => resources[run.resourceId].indexStatus = "finish"

\* The storage key the caller supplied with a task (param.storageKey, else
\* data.storageKey)
Supplied(task) == OrElse(task.storageKey, task.data.storageKey)

\* C22: content resolution goes linkId, storage key, url.  A run whose linkId
\* matches a crawl record downloads that record's parsedDocStorageKey, whatever
\* storage key was supplied, and neither crawls nor uploads.  A linkId that
\* matches no record does not fail the run: it goes on to download the
\* supplied storage key or, without one, to the crawl of the url (when there
\* is no inline content) or else to the upload.  crawlFromRemoteReader is
\* called only when no storage key was resolved and no inline content given.
C22_ResolutionOrder ==
  [][run.pc # "idle" /\ run' # run /\ run'.task = run.task /\ Task.hasData =>
       LET linkId == Task.data.linkId
           known == linkId \in KnownLinks
           looked == run.pc = "weblink" /\ run'.err # "weblink"
       IN  /\ ~Falsy(linkId) /\ run.called = <<>> => run.pc = "weblink"
           /\ looked /\ known =>
                /\ run'.pc = "download"
                /\ run'.storageKey = parsedDocStorageKey(linkId)
           /\ looked /\ ~known =>
                /\ run'.err = Undef
                /\ run'.pc = IF ~Falsy(Supplied(Task)) THEN "download"
                             ELSE IF Falsy(Task.content) /\ ~Falsy(Task.data.url)
                             THEN "crawl" ELSE "upload"
                /\ run'.storageKey = Supplied(Task)
           /\ run.pc = "download" => run'.ioKey = run.storageKey
           /\ known /\ "weblink" \in Called(run) /\ run.err # "weblink" =>
                /\ run'.pc \notin {"crawl", "upload"}
                /\ Called(run') \cap {"crawl", "upload"} = {}
                /\ "download" \in Called(run') => run'.ioKey = parsedDocStorageKey(linkId)
           /\ run'.pc = "crawl" \/ "crawl" \in Called(run') =>
                /\ Falsy(Task.content)
                /\ Falsy(Supplied(Task))
                /\ ~known
                /\ "download" \notin Called(run')]_vars

\* A run whose task named a known linkId and supplied another storage key has
\* read the crawl record's document and finished without crawl or upload.
C22_Witness ==
  /\ run.pc = "done" /\ run.err = Undef
  /\ Task.data.linkId \in KnownLinks
  /\ Task.storageKey = "k1"
  /\ run.called = <<"weblink", "download", "index", "save", "update">>
  /\ run.ioKey = parsedDocStorageKey(Task.data.linkId)
  /\ resources[run.resourceId].storageKey = parsedDocStorageKey(Task.data.linkId)

\* C23 (as claimed): meter windows are half-open.  An updateTokenUsage whose
\* timestamp is the current time changes
\* no meter whose window [startAt, endAt) does not contain the timestamp, in
\* particular none whose endAt equals the timestamp; and a checkTokenUsage
\* that returns a tier set has found a meter whose window [startAt, endAt)
\* contains now.
C23_WindowHalfOpen ==
  [][/\ \A usage \in Usages, t \in 0..MaxTime :
          t = now /\ UpdateTokenUsage(1, usage, t) =>
            \A m \in Meters :
              ~(meters[m].startAt <= t /\ t < meters[m].endAt) => meters'[m] = meters[m]
     /\ CheckTokenUsage(1) /\ subOp'.err = Undef =>
          \E m \in Meters : /\ meters[m].uid = 1 /\ ~meters[m].deleted
                            /\ meters[m].startAt <= now /\ now < meters[m].endAt]_vars

\* The user has the subscription after the step: its row, the user's
\* subscriptionId and a usage meter of it
Subscribed(uid, sid) ==
  /\ subs'[sid].exists
  /\ accounts'[uid].subscriptionId = sid
  /\ \E m \in 1..Len(meters') : meters'[m].subscriptionId = sid /\ meters'[m].uid = uid

\* C24 (as claimed): once the paid checkout.session.completed event and the
\* customer.subscription.created event of one checkout have both been
\* handled, whichever came first, there is a Subscription row of that
\* subscription id, the user's subscriptionId is that id and the subscription
\* has a usage meter.  Stated at the step that handles the second of the two
\* events right after the first.
C24_BothEventsEitherOrder ==
  [][/\ \A ev \in CreatedEvents :
          /\ subOp.op = "checkout.session.completed" /\ subOp.id = ev.id
          /\ ev.id \in 1..Len(sessions)
          /\ sessions[ev.id].paymentStatus = "paid"
          /\ sessions[ev.id].subscriptionId = ev.id
          /\ ~subs[ev.id].exists
          /\ accounts[sessions[ev.id].uid].subscriptionId = 0
          /\ HandleSubscriptionCreated(ev)
          => Subscribed(sessions[ev.id].uid, ev.id)
     /\ \A ev \in CheckoutEvents :
          /\ subOp.op = "customer.subscription.created" /\ subOp.id = ev.subscription
          /\ ev.payment_status = "paid"
          /\ ev.id \in 1..Len(sessions)
          /\ sessions[ev.id].uid = ev.uid
          /\ sessions[ev.id].paymentStatus # "paid"
          /\ accounts[ev.uid].subscriptionId = 0
          /\ HandleCheckoutSessionCompleted(ev)
          => Subscribed(ev.uid, ev.subscription)]_vars

\* No delivery of a task of resource r is under way
Settled(r) == run.pc \in {"idle", "done"} \/ run.resourceId # r

\* C25 (as claimed): whenever a resource is soft-deleted and no ingestion run
\* of it is under way, the index holds no chunks of it; and no step clears
\* the deletion mark of a row.
C25_DeletedStaysUnindexed ==
  [][/\ \A r \in 1..Len(resources') :
          resources'[r].deleted /\ Settled(r)' => r \notin indexed'
     /\ \A r \in Rows : resources[r].deleted => resources'[r].deleted]_vars

====
